---- MODULE Spec2Model ----
(***************************************************************************)
(* A model of experiments/oneway.py: the batch sampler (sample_batch), the *)
(* token sampler (sample), the autoregressive sampler (sample_sequence)    *)
(* and the training/evaluation loop (go).                                  *)
(*                                                                         *)
(* Three specifications share the module:                                  *)
(*   SpecBatch  one call of sample_batch on bounded inputs                 *)
(*   SpecSeq    one call of sample_sequence on bounded inputs              *)
(*   Spec       one run of go, which calls both                            *)
(***************************************************************************)
EXTENDS Integers, Sequences, FiniteSets

\* ------------------------------------------------------------------ bounds

\* Size of the token alphabet of the model (NUM_TOKENS scaled down).
VocabSize == 2
\* Longest source sequence handed to a stand-alone sample_batch call.
MaxData == 4
\* Largest window length of a stand-alone sample_batch call.
MaxBatchLength == 2
\* Largest batch size of a stand-alone sample_batch call.
MaxBatchSize == 2
\* Longest seed, largest context window and largest number of sampled tokens
\* of a stand-alone sample_sequence call.
MaxSeedLen == 2
MaxSeqContext == 2
MaxLength == 2
\* Largest state of an entropy-seeded random source.
MaxEntropy == 1

\* The arguments of a run of go: num_batches in 1 .. MaxNumBatches and
\* test_every in 1 .. MaxTestEvery.
MaxNumBatches == 3
MaxTestEvery == 2
\* The split sizes n_train, n_valid, n_test of enwik8, scaled down.
NTrain == 3
NValid == 2
NTest == 1

\* The other arguments of a run of go: context, sample_length, batch_size,
\* gradient_clipping (0.0 turns the clipping off), gamma and seed (a
\* negative seed asks for a random one).
GoContexts == {1}
GoSampleLengths == {1}
GoBatchSizes == {2}
GoClippings == {0, 1}
GoGammas == {1}
GoSeeds == {-1, 1}
\* The seeds random.randint(0, 1000000) can choose, scaled down.
RandSeeds == {0, 1}

Tokens == 0 .. (VocabSize - 1)

\* Sampling temperatures in tenths: 0 is 0.0, 5 is the default 0.5 of
\* sample_sequence.
Temperatures == {0, 5}

\* Logit vectors a model call can return at the last position.
LogitVals == {0, 1}
LogitVectors == [1 .. VocabSize -> LogitVals]

\* ----------------------------------------------------------------- helpers

Min(a, b) == IF a < b THEN a ELSE b

Max(a, b) == IF a < b THEN b ELSE a

\* All sequences over S with a length in lo .. hi.
SeqsOf(S, lo, hi) == UNION {[1 .. n -> S] : n \in lo .. hi}

\* Python's s[a:b] for 0 <= a and 0 <= b: the end is clamped to len(s).
PySlice(s, a, b) ==
  IF a >= Min(b, Len(s)) THEN <<>> ELSE SubSeq(s, a + 1, Min(b, Len(s)))

\* Python's s[-n:] for n >= 1: the last min(n, len(s)) elements.
PyTail(s, n) == SubSeq(s, Max(1, Len(s) - n + 1), Len(s))

\* tensor.to(torch.long) on a uint8 tensor: every value 0..255 is kept
\* (zero extension to 64 bits).
ToLong(row) == [c \in 1 .. Len(row) |-> row[c] % 256]

\* The k-th draw (k = 0, 1, ...) in [0, n) of a pseudo-random source whose
\* state was set from s: a fixed function of s and k, as a seeded generator is.
Draw(s, k, n) == (s + k * (s + 2)) % n

\* --------------------------------------------------------------- variables

VARIABLES
  \* random sources: torch's default generator and Python's random module,
  \* each a (state it was set from, draws consumed) pair; the B copies belong
  \* to a second run of go started with the same arguments
  torchSeed, torchCnt, torchSeedB, pySeed, pyCnt, pySeedB,
  \* the frame of sample_batch
  bpc, data, b_length, b_batch_size, starts, startsB, inputs, target,
  \* the frame of sample_sequence (and of the sample calls it makes)
  spc, seq_seed, seed0, max_context, length, temperature, sequence, steps,
  modelCalls, lnprobs, c, cB, prevLn, prevC, ret,
  \* the arguments of go
  num_batches, batch_size, test_every, gradient_clipping, gamma, context,
  final, sample_length, seed, corpusLen, cuda,
  \* the locals of go
  pc, seedB, manualSeed, data_train, data_test, i, instances_seen,
  ema_losses, total_loss, losses, loss, backprop, gradsInf, found_inf,
  params, scaleExp, growth_tracker, last_epoch, seedfr, seedfrB,
  \* history of the run of go
  trace, overflowed, iterParams, iterScale, evalLog, compLog

rngVars == <<torchSeed, torchCnt, torchSeedB, pySeed, pyCnt, pySeedB>>

batchVars == <<bpc, data, b_length, b_batch_size, starts, startsB, inputs, target>>

seqVars ==
  <<spc, seq_seed, seed0, max_context, length, temperature, sequence, steps,
    modelCalls, lnprobs, c, cB, prevLn, prevC, ret>>

goArgs ==
  <<num_batches, batch_size, test_every, gradient_clipping, gamma, context,
    final, sample_length, corpusLen, cuda>>

goLocals ==
  <<pc, seed, seedB, manualSeed, data_train, data_test, i, instances_seen,
    ema_losses, total_loss, losses, loss, backprop, gradsInf, found_inf,
    params, scaleExp, growth_tracker, last_epoch, seedfr, seedfrB>>

goHist == <<trace, overflowed, iterParams, iterScale, evalLog, compLog>>

goVars == <<goArgs, goLocals, goHist>>

vars == <<rngVars, batchVars, seqVars, goVars>>

\* ------------------------------------------------------------ sample_batch

\* A variant of RandintHigh that lets a window reach the end of the data.
RandintHighWide(n, len) == n - len + 1

\* The exclusive upper end of the start offsets: data.size(0) - length - 1.
RandintHigh(n, len) == n - len - 1

\* The start offsets torch.randint draws: batch_size consecutive draws in
\* [0, high) from the source (s, k).
RandintStarts(s, k, bs, high) == [r \in 1 .. bs |-> Draw(s, k + r - 1, high)]

\* seqs_inputs: data[start : start + length] for every start.
InputRows(d, st, len) ==
  [r \in 1 .. Len(st) |-> ToLong(PySlice(d, st[r], st[r] + len))]

\* seqs_target: data[start + 1 : start + length + 1] for every start.
TargetRows(d, st, len) ==
  [r \in 1 .. Len(st) |-> ToLong(PySlice(d, st[r] + 1, st[r] + len + 1))]

\* torch.cat along dim 0 needs rows of one length.
CatOk(rows) == \A r \in 1 .. Len(rows) : Len(rows[r]) = Len(rows[1])

\* sample_batch with a non-empty range of start offsets.
SampleBatch ==
  /\ bpc = "call"
  /\ RandintHigh(Len(data), b_length) > 0
  /\ LET high == RandintHigh(Len(data), b_length)
         st == RandintStarts(torchSeed, torchCnt, b_batch_size, high)
         stB == RandintStarts(torchSeedB, torchCnt, b_batch_size, high)
         ins == InputRows(data, st, b_length)
         tgt == TargetRows(data, st, b_length)
     IN /\ starts' = st
        /\ startsB' = stB
        /\ IF CatOk(ins) /\ CatOk(tgt)
             THEN /\ inputs' = ins
                  /\ target' = tgt
                  /\ bpc' = "returned"
             ELSE /\ UNCHANGED <<inputs, target>>
                  /\ bpc' = "raised"
  /\ torchCnt' = torchCnt + b_batch_size
  /\ UNCHANGED <<torchSeed, torchSeedB, pySeed, pyCnt, pySeedB>>
  /\ UNCHANGED <<data, b_length, b_batch_size>>
  /\ UNCHANGED <<seqVars, goVars>>

\* sample_batch when torch.randint is given an empty range (high <= low = 0):
\* it raises and nothing is drawn.
SampleBatchRaise ==
  /\ bpc = "call"
  /\ RandintHigh(Len(data), b_length) <= 0
  /\ bpc' = "raised"
  /\ UNCHANGED <<data, b_length, b_batch_size, starts, startsB, inputs, target>>
  /\ UNCHANGED <<rngVars, seqVars, goVars>>

\* ------------------------------------------------------------------ sample

\* lnprobs.argmax(): the (0-based) index of the first maximal entry.
Argmax(v) ==
  (CHOOSE k \in 1 .. Len(v) :
     /\ \A j \in 1 .. Len(v) : v[j] <= v[k]
     /\ \A j \in 1 .. (k - 1) : v[j] < v[k]) - 1

\* dist.Categorical(softmax(lnprobs / temperature)).sample(): softmax gives
\* every index of a finite logit vector a positive probability, so the draw
\* is an index in [0, len(lnprobs)) taken from the source (s, k).
CategoricalSample(v, temp, s, k) == Draw(s, k, Len(v))

\* A variant of Sample without the greedy branch.
SampleNoGreedy(v, temp, s, k) ==
  [index |-> CategoricalSample(v, temp, s, k), used |-> 1]

\* sample(lnprobs, temperature): the index returned and the number of draws
\* it took from the random source (s, k).
Sample(v, temp, s, k) ==
  IF temp = 0
    THEN [index |-> Argmax(v), used |-> 0]
    ELSE [index |-> CategoricalSample(v, temp, s, k), used |-> 1]

\* --------------------------------------------------------- sample_sequence

\* model(input[None, :])[3][0, -1, :]: the logit vectors the model can give
\* at the last position of a non-empty input.
ModelOutput(input) == IF Len(input) >= 1 THEN LogitVectors ELSE {}

\* A variant of LoopContinues that runs one round too many.
LoopContinuesInclusive(done, len) == done <= len

\* for _ in range(length): the body runs while fewer than length rounds ran.
LoopContinues(done, len) == done < len

\* The value of the return statement, given the seed and the sampled sequence.
ReturnValue(seedv, sequencev) == seedv

\* sequence = seed.detach().clone()
SeqStart ==
  /\ spc = "call"
  /\ sequence' = seq_seed
  /\ steps' = 0
  /\ spc' = "loop"
  /\ UNCHANGED <<seq_seed, seed0, max_context, length, temperature, modelCalls,
                 lnprobs, c, cB, prevLn, prevC, ret>>
  /\ UNCHANGED <<rngVars, batchVars, goVars>>

\* One round of the loop: window the tail of the sequence, run the model on
\* it, sample a token at the last position, append it.
SeqStep ==
  /\ spc = "loop"
  /\ LoopContinues(steps, length)
  /\ \E output \in ModelOutput(PyTail(sequence, max_context)) :
       LET r == Sample(output, temperature, torchSeed, torchCnt)
           rB == Sample(output, temperature, torchSeedB, torchCnt)
       IN /\ modelCalls' = modelCalls + 1
          /\ prevLn' = lnprobs
          /\ prevC' = c
          /\ lnprobs' = output
          /\ c' = r.index
          /\ cB' = rB.index
          /\ torchCnt' = torchCnt + r.used
          /\ sequence' = Append(sequence, r.index)
  /\ steps' = steps + 1
  /\ UNCHANGED <<spc, seq_seed, seed0, max_context, length, temperature, ret>>
  /\ UNCHANGED <<torchSeed, torchSeedB, pySeed, pyCnt, pySeedB>>
  /\ UNCHANGED <<batchVars, goVars>>

\* The loop is over: return.
SeqReturn ==
  /\ spc = "loop"
  /\ ~LoopContinues(steps, length)
  /\ ret' = ReturnValue(seq_seed, sequence)
  /\ spc' = "returned"
  /\ UNCHANGED <<seq_seed, seed0, max_context, length, temperature, sequence,
                 steps, modelCalls, lnprobs, c, cB, prevLn, prevC>>
  /\ UNCHANGED <<rngVars, batchVars, goVars>>

\* ---------------------------------------------- frames that are not running

NoValue == <<>>

\* A loss variable that is not bound yet.
NoLoss == [src |-> "none", val |-> 0]

BatchIdle ==
  /\ bpc = "idle"
  /\ data = NoValue
  /\ b_length = 0
  /\ b_batch_size = 0
  /\ starts = NoValue
  /\ startsB = NoValue
  /\ inputs = NoValue
  /\ target = NoValue

SeqIdle ==
  /\ spc = "idle"
  /\ seq_seed = NoValue
  /\ seed0 = NoValue
  /\ max_context = 0
  /\ length = 0
  /\ temperature = 0
  /\ sequence = NoValue
  /\ steps = 0
  /\ modelCalls = 0
  /\ lnprobs = NoValue
  /\ c = -1
  /\ cB = -1
  /\ prevLn = NoValue
  /\ prevC = -1
  /\ ret = NoValue

GoIdle ==
  /\ num_batches = 0
  /\ batch_size = 0
  /\ test_every = 0
  /\ gradient_clipping = 0
  /\ gamma = 0
  /\ context = 0
  /\ final = FALSE
  /\ sample_length = 0
  /\ seed = 0
  /\ corpusLen = 0
  /\ cuda = FALSE
  /\ pc = "idle"
  /\ seedB = 0
  /\ manualSeed = -1
  /\ data_train = NoValue
  /\ data_test = NoValue
  /\ i = -1
  /\ instances_seen = 0
  /\ ema_losses = NoValue
  /\ total_loss = NoLoss
  /\ losses = NoValue
  /\ loss = NoLoss
  /\ backprop = NoLoss
  /\ gradsInf = FALSE
  /\ found_inf = FALSE
  /\ params = 0
  /\ scaleExp = 0
  /\ growth_tracker = 0
  /\ last_epoch = 0
  /\ seedfr = -1
  /\ seedfrB = -1
  /\ trace = NoValue
  /\ overflowed = FALSE
  /\ iterParams = 0
  /\ iterScale = 0
  /\ evalLog = NoValue
  /\ compLog = NoValue

\* ------------------------------------------- stand-alone calls: SpecBatch

\* A call of sample_batch on any source of at most MaxData tokens.
InitBatch ==
  /\ bpc = "call"
  /\ data \in SeqsOf(Tokens, 0, MaxData)
  /\ b_length \in 0 .. MaxBatchLength
  /\ b_batch_size \in 1 .. MaxBatchSize
  /\ starts = NoValue
  /\ startsB = NoValue
  /\ inputs = NoValue
  /\ target = NoValue
  /\ torchSeed \in 0 .. MaxData
  /\ torchSeedB = torchSeed
  /\ torchCnt = 0
  /\ pySeed = 0
  /\ pySeedB = 0
  /\ pyCnt = 0
  /\ SeqIdle
  /\ GoIdle

NextBatch == SampleBatch \/ SampleBatchRaise

SpecBatch == InitBatch /\ [][NextBatch]_vars

\* --------------------------------------------- stand-alone calls: SpecSeq

\* A call of sample_sequence on any seed of 1 .. MaxSeedLen tokens.
InitSeq ==
  /\ spc = "call"
  /\ seq_seed \in SeqsOf(Tokens, 1, MaxSeedLen)
  /\ seed0 = seq_seed
  /\ max_context \in 1 .. MaxSeqContext
  /\ length \in 0 .. MaxLength
  /\ temperature \in Temperatures
  /\ sequence = NoValue
  /\ steps = 0
  /\ modelCalls = 0
  /\ lnprobs = NoValue
  /\ c = -1
  /\ cB = -1
  /\ prevLn = NoValue
  /\ prevC = -1
  /\ ret = NoValue
  /\ torchSeed \in 0 .. MaxEntropy
  /\ torchSeedB = torchSeed
  /\ torchCnt = 0
  /\ pySeed = 0
  /\ pySeedB = 0
  /\ pyCnt = 0
  /\ BatchIdle
  /\ GoIdle

NextSeq == SeqStart \/ SeqStep \/ SeqReturn

SpecSeq == InitSeq /\ [][NextSeq]_vars

\* ---------------------------------------------------------------------- go

\* The upper end of random.randint(0, 1000000), scaled down to RandSeeds.
RandSeedMax == Cardinality(RandSeeds) - 1

\* random.randint(lo, hi) of Python's random module: both ends included.
PyRandint(s, k, lo, hi) == lo + Draw(s, k, hi - lo + 1)

\* The bytes of the corpus file.
CorpusByte(p) == (p * p + p \div 2) % VocabSize

\* enwik8(path): at most n_train + n_valid + n_test bytes are read and split
\* at n_train and n_train + n_valid; np.split gives short or empty parts when
\* the bytes run out.
Enwik8(n) ==
  LET X == [p \in 1 .. Min(n, NTrain + NValid + NTest) |-> CorpusByte(p)]
  IN [trX |-> PySlice(X, 0, NTrain),
      vaX |-> PySlice(X, NTrain, NTrain + NValid),
      teX |-> PySlice(X, NTrain + NValid, Len(X))]

\* float('inf') in ema_losses.
InfLoss == -1
\* GradScaler(): init_scale = 2.0 ** 16 (kept as its exponent), the scale
\* doubles after growth_interval = 2000 consecutive steps without overflow
\* and halves on overflow.
INIT_SCALE_EXP == 16
GROWTH_INTERVAL == 2000

\* The per-layer cross-entropy losses (in hundredths) of the model's four
\* outputs on a batch: three intermediate layers, then the final layer.
LayerLosses == {<<300, 300, 300, 100>>}

Sum3(v) == v[1] + v[2] + v[3]

\* util.distill_loss(outputs[3], target, outputs[0:3], gamma):
\* teacher_loss + gamma * mean(student_losses).
DistillLoss(ce, g) ==
  [src |-> "distill_loss", val |-> ce[4] + g * (Sum3(ce) \div 3)]

\* compute_ema_losses(outputs, target, ema_losses): one loss per layer, and
\* for each layer beta * old + (1 - beta) * new with beta = 0.99, or the new
\* loss where the old average is infinite.
ComputeEmaLosses(ce, ema) ==
  [losses |-> [k \in 1 .. 4 |-> [src |-> "compute_ema_losses", val |-> ce[k]]],
   ema |-> [k \in 1 .. 4 |->
             IF ema[k] = InfLoss THEN ce[k] ELSE (99 * ema[k] + ce[k]) \div 100]]

\* for idx, loss in enumerate(losses): what loss is bound to afterwards.
LossAfterLogging(l, ls) == IF Len(ls) = 0 THEN l ELSE ls[Len(ls)]

\* A variant of OptimizerStepRuns that never skips the step.
OptimizerStepAlways(enabled, found) == TRUE

\* scaler.step(opt) runs opt.step() unless the scaler is enabled and found
\* inf/NaN gradients when it unscaled them.
OptimizerStepRuns(enabled, found) == ~enabled \/ ~found

\* A variant of EvalDue that forgets the final iteration.
EvalDueNoFinal(idx, n, every) == idx # 0 /\ idx % every = 0

\* if i != 0 and (i % test_every == 0 or i == num_batches - 1)
EvalDue(idx, n, every) == idx # 0 /\ (idx % every = 0 \/ idx = n - 1)

\* A variant of PcAfter that updates the scaler before the optimizer step.
PcAfterSwapped(p) ==
  CASE p = "seed" -> "load"
    [] p = "load" -> "setup"
    [] p = "setup" -> "loop"
    [] p = "sample_batch" -> "in_sample_batch"
    [] p = "in_sample_batch" -> "forward"
    [] p = "forward" -> "log_losses"
    [] p = "log_losses" -> "backward"
    [] p = "backward" -> "unscale"
    [] p = "unscale" -> "clip"
    [] p = "clip" -> "scaler_update"
    [] p = "scaler_update" -> "scaler_step"
    [] p = "scaler_step" -> "sch_step"
    [] p = "sch_step" -> "eval_check"
    [] p = "eval_seed" -> "eval_sample"
    [] p = "eval_sample" -> "in_sample_sequence"
    [] p = "in_sample_sequence" -> "loop"
    [] OTHER -> "error"

\* The statement that follows each statement of go.
PcAfter(p) ==
  CASE p = "seed" -> "load"
    [] p = "load" -> "setup"
    [] p = "setup" -> "loop"
    [] p = "sample_batch" -> "in_sample_batch"
    [] p = "in_sample_batch" -> "forward"
    [] p = "forward" -> "log_losses"
    [] p = "log_losses" -> "backward"
    [] p = "backward" -> "unscale"
    [] p = "unscale" -> "clip"
    [] p = "clip" -> "scaler_step"
    [] p = "scaler_step" -> "scaler_update"
    [] p = "scaler_update" -> "sch_step"
    [] p = "sch_step" -> "eval_check"
    [] p = "eval_seed" -> "eval_sample"
    [] p = "eval_sample" -> "in_sample_sequence"
    [] p = "in_sample_sequence" -> "loop"
    [] OTHER -> "error"

\* The call go(...): the arguments, and the two random sources as the
\* interpreter start left them (seeded from system entropy). The second run
\* is told apart from the first only where runs are compared: under an
\* explicit seed, where its Python source starts from entropy of its own.
Init ==
  /\ num_batches \in 1 .. MaxNumBatches
  /\ batch_size \in GoBatchSizes
  /\ test_every \in 1 .. MaxTestEvery
  /\ gradient_clipping \in GoClippings
  /\ gamma \in GoGammas
  /\ context \in GoContexts
  /\ final \in BOOLEAN
  /\ sample_length \in GoSampleLengths
  /\ seed \in GoSeeds
  /\ corpusLen \in 0 .. (NTrain + NValid + NTest)
  /\ cuda \in BOOLEAN
  /\ pc = "seed"
  /\ seedB = seed
  /\ manualSeed = -1
  /\ data_train = NoValue
  /\ data_test = NoValue
  /\ i = -1
  /\ instances_seen = 0
  /\ ema_losses = NoValue
  /\ total_loss = NoLoss
  /\ losses = NoValue
  /\ loss = NoLoss
  /\ backprop = NoLoss
  /\ gradsInf = FALSE
  /\ found_inf = FALSE
  /\ params = 0
  /\ scaleExp = 0
  /\ growth_tracker = 0
  /\ last_epoch = 0
  /\ seedfr = -1
  /\ seedfrB = -1
  /\ trace = <<>>
  /\ overflowed = FALSE
  /\ iterParams = 0
  /\ iterScale = 0
  /\ evalLog = <<>>
  /\ compLog = <<>>
  /\ torchSeed \in 0 .. MaxEntropy
  /\ torchSeedB = torchSeed
  /\ torchCnt = 0
  /\ pySeed \in 0 .. MaxEntropy
  /\ pySeedB \in IF seed >= 0 THEN 0 .. MaxEntropy ELSE {pySeed}
  /\ pyCnt = 0
  /\ BatchIdle
  /\ SeqIdle

\* if seed < 0: seed = random.randint(0, 1000000); print(...)
\* else: torch.manual_seed(seed)
GoSeed ==
  /\ pc = "seed"
  /\ IF seed < 0
       THEN /\ seed' = PyRandint(pySeed, pyCnt, 0, RandSeedMax)
            /\ seedB' = PyRandint(pySeedB, pyCnt, 0, RandSeedMax)
            /\ pyCnt' = pyCnt + 1
            /\ UNCHANGED <<torchSeed, torchSeedB, torchCnt, manualSeed>>
       ELSE /\ torchSeed' = seed
            /\ torchSeedB' = seedB
            /\ torchCnt' = 0
            /\ manualSeed' = seed
            /\ UNCHANGED <<seed, seedB, pyCnt>>
  /\ pc' = PcAfter(pc)
  /\ UNCHANGED <<pySeed, pySeedB>>
  /\ UNCHANGED <<data_train, data_test, i, instances_seen, ema_losses,
                 total_loss, losses, loss, backprop, gradsInf, found_inf,
                 params, scaleExp, growth_tracker, last_epoch, seedfr, seedfrB>>
  /\ UNCHANGED <<goArgs, goHist, batchVars, seqVars>>

\* data_train, data_val, data_test = enwik8(data), then the choice of the
\* held-out split by final.
GoLoadData ==
  /\ pc = "load"
  /\ LET d == Enwik8(corpusLen)
     IN /\ data_train' = IF final THEN d.trX \o d.vaX ELSE d.trX
        /\ data_test' = IF final THEN d.teX ELSE d.vaX
  /\ pc' = PcAfter(pc)
  /\ UNCHANGED <<seed, seedB, manualSeed, i, instances_seen, ema_losses,
                 total_loss, losses, loss, backprop, gradsInf, found_inf,
                 params, scaleExp, growth_tracker, last_epoch, seedfr, seedfrB>>
  /\ UNCHANGED <<goArgs, goHist, rngVars, batchVars, seqVars>>

\* The model, the optimizer, the one-cycle schedule (its constructor takes
\* the schedule to step 0), instances_seen, the scaler and ema_losses.
GoSetup ==
  /\ pc = "setup"
  /\ params' = 0
  /\ last_epoch' = 0
  /\ instances_seen' = 0
  /\ scaleExp' = INIT_SCALE_EXP
  /\ growth_tracker' = 0
  /\ ema_losses' = <<InfLoss, InfLoss, InfLoss, InfLoss>>
  /\ pc' = PcAfter(pc)
  /\ UNCHANGED <<seed, seedB, manualSeed, data_train, data_test, i,
                 total_loss, losses, loss, backprop, gradsInf, found_inf,
                 seedfr, seedfrB>>
  /\ UNCHANGED <<goArgs, goHist, rngVars, batchVars, seqVars>>

\* for i in tqdm.trange(num_batches): the next iteration begins.
GoLoopNext ==
  /\ pc = "loop"
  /\ i + 1 < num_batches
  /\ i' = i + 1
  /\ trace' = <<>>
  /\ overflowed' = FALSE
  /\ iterParams' = params
  /\ iterScale' = scaleExp
  /\ pc' = "sample_batch"
  /\ UNCHANGED <<seed, seedB, manualSeed, data_train, data_test,
                 instances_seen, ema_losses, total_loss, losses, loss,
                 backprop, gradsInf, found_inf, params, scaleExp,
                 growth_tracker, last_epoch, seedfr, seedfrB, evalLog,
                 compLog>>
  /\ UNCHANGED <<goArgs, rngVars, batchVars, seqVars>>

\* The range is exhausted: go returns.
GoLoopDone ==
  /\ pc = "loop"
  /\ ~(i + 1 < num_batches)
  /\ pc' = "done"
  /\ UNCHANGED <<seed, seedB, manualSeed, data_train, data_test, i,
                 instances_seen, ema_losses, total_loss, losses, loss,
                 backprop, gradsInf, found_inf, params, scaleExp,
                 growth_tracker, last_epoch, seedfr, seedfrB, trace,
                 overflowed, iterParams, iterScale, evalLog, compLog>>
  /\ UNCHANGED <<goArgs, rngVars, batchVars, seqVars>>

\* opt.zero_grad(); sample_batch(data_train, length=context, batch_size=batch_size) is called.
GoCallSampleBatch ==
  /\ pc = "sample_batch"
  /\ bpc' = "call"
  /\ data' = data_train
  /\ b_length' = context
  /\ b_batch_size' = batch_size
  /\ UNCHANGED <<starts, startsB, inputs, target>>
  /\ trace' = Append(trace, "sample_batch")
  /\ pc' = PcAfter(pc)
  /\ UNCHANGED <<seed, seedB, manualSeed, data_train, data_test, i,
                 instances_seen, ema_losses, total_loss, losses, loss,
                 backprop, gradsInf, found_inf, params, scaleExp,
                 growth_tracker, last_epoch, seedfr, seedfrB, overflowed,
                 iterParams, iterScale, evalLog, compLog>>
  /\ UNCHANGED <<goArgs, rngVars, seqVars>>

\* source, target = the batch; instances_seen += source.size(0).
GoBatchReturned ==
  /\ pc = "in_sample_batch"
  /\ bpc = "returned"
  /\ instances_seen' = instances_seen + Len(inputs)
  /\ bpc' = "idle"
  /\ data' = NoValue
  /\ b_length' = 0
  /\ b_batch_size' = 0
  /\ starts' = NoValue
  /\ startsB' = NoValue
  /\ inputs' = NoValue
  /\ target' = NoValue
  /\ pc' = PcAfter(pc)
  /\ UNCHANGED <<seed, seedB, manualSeed, data_train, data_test, i,
                 ema_losses, total_loss, losses, loss, backprop, gradsInf,
                 found_inf, params, scaleExp, growth_tracker, last_epoch,
                 seedfr, seedfrB, trace, overflowed, iterParams, iterScale,
                 evalLog, compLog>>
  /\ UNCHANGED <<goArgs, rngVars, seqVars>>

\* sample_batch raised: the exception leaves go.
GoBatchRaised ==
  /\ pc = "in_sample_batch"
  /\ bpc = "raised"
  /\ pc' = "error"
  /\ UNCHANGED batchVars
  /\ UNCHANGED <<seed, seedB, manualSeed, data_train, data_test, i,
                 instances_seen, ema_losses, total_loss, losses, loss,
                 backprop, gradsInf, found_inf, params, scaleExp,
                 growth_tracker, last_epoch, seedfr, seedfrB, trace,
                 overflowed, iterParams, iterScale, evalLog, compLog>>
  /\ UNCHANGED <<goArgs, rngVars, seqVars>>

\* outputs = model(source); the combined loss of util.distill_loss and the
\* per-layer losses and averages of compute_ema_losses.
GoForward ==
  /\ pc = "forward"
  /\ \E ce \in LayerLosses :
       LET d == DistillLoss(ce, gamma)
           e == ComputeEmaLosses(ce, ema_losses)
       IN /\ loss' = d
          /\ total_loss' = d
          /\ losses' = e.losses
          /\ ema_losses' = e.ema
  /\ trace' = Append(trace, "forward")
  /\ pc' = PcAfter(pc)
  /\ UNCHANGED <<seed, seedB, manualSeed, data_train, data_test, i,
                 instances_seen, backprop, gradsInf, found_inf, params,
                 scaleExp, growth_tracker, last_epoch, seedfr, seedfrB,
                 overflowed, iterParams, iterScale, evalLog, compLog>>
  /\ UNCHANGED <<goArgs, rngVars, batchVars, seqVars>>

\* for idx, loss in enumerate(losses): wandb.log(...)
GoLogLosses ==
  /\ pc = "log_losses"
  /\ loss' = LossAfterLogging(loss, losses)
  /\ pc' = PcAfter(pc)
  /\ UNCHANGED <<seed, seedB, manualSeed, data_train, data_test, i,
                 instances_seen, ema_losses, total_loss, losses, backprop,
                 gradsInf, found_inf, params, scaleExp, growth_tracker,
                 last_epoch, seedfr, seedfrB, trace, overflowed, iterParams,
                 iterScale, evalLog, compLog>>
  /\ UNCHANGED <<goArgs, rngVars, batchVars, seqVars>>

\* scaler.scale(loss).backward(): the scaled gradients of loss; they may
\* hold inf or NaN.
GoBackward ==
  /\ pc = "backward"
  /\ backprop' = loss
  /\ gradsInf' \in BOOLEAN
  /\ trace' = Append(trace, "backward")
  /\ pc' = PcAfter(pc)
  /\ UNCHANGED <<seed, seedB, manualSeed, data_train, data_test, i,
                 instances_seen, ema_losses, total_loss, losses, loss,
                 found_inf, params, scaleExp, growth_tracker, last_epoch,
                 seedfr, seedfrB, overflowed, iterParams, iterScale, evalLog,
                 compLog>>
  /\ UNCHANGED <<goArgs, rngVars, batchVars, seqVars>>

\* scaler.unscale_(opt): an enabled scaler (CUDA) records whether the
\* gradients hold inf or NaN; a disabled one does nothing.
GoUnscale ==
  /\ pc = "unscale"
  /\ found_inf' = (cuda /\ gradsInf)
  /\ overflowed' = (cuda /\ gradsInf)
  /\ trace' = Append(trace, "unscale")
  /\ pc' = PcAfter(pc)
  /\ UNCHANGED <<seed, seedB, manualSeed, data_train, data_test, i,
                 instances_seen, ema_losses, total_loss, losses, loss,
                 backprop, gradsInf, params, scaleExp, growth_tracker,
                 last_epoch, seedfr, seedfrB, iterParams, iterScale, evalLog,
                 compLog>>
  /\ UNCHANGED <<goArgs, rngVars, batchVars, seqVars>>

\* if gradient_clipping > 0.0: nn.utils.clip_grad_norm_(...)
GoClip ==
  /\ pc = "clip"
  /\ trace' = IF gradient_clipping > 0 THEN Append(trace, "clip") ELSE trace
  /\ pc' = PcAfter(pc)
  /\ UNCHANGED <<seed, seedB, manualSeed, data_train, data_test, i,
                 instances_seen, ema_losses, total_loss, losses, loss,
                 backprop, gradsInf, found_inf, params, scaleExp,
                 growth_tracker, last_epoch, seedfr, seedfrB, overflowed,
                 iterParams, iterScale, evalLog, compLog>>
  /\ UNCHANGED <<goArgs, rngVars, batchVars, seqVars>>

\* scaler.step(opt)
GoScalerStep ==
  /\ pc = "scaler_step"
  /\ params' = IF OptimizerStepRuns(cuda, found_inf) THEN params + 1 ELSE params
  /\ trace' = Append(trace, "optimizer_step")
  /\ pc' = PcAfter(pc)
  /\ UNCHANGED <<seed, seedB, manualSeed, data_train, data_test, i,
                 instances_seen, ema_losses, total_loss, losses, loss,
                 backprop, gradsInf, found_inf, scaleExp, growth_tracker,
                 last_epoch, seedfr, seedfrB, overflowed, iterParams,
                 iterScale, evalLog, compLog>>
  /\ UNCHANGED <<goArgs, rngVars, batchVars, seqVars>>

\* scaler.update(): an enabled scaler halves the scale after an overflow and
\* doubles it after GROWTH_INTERVAL steps in a row without one.
GoScalerUpdate ==
  /\ pc = "scaler_update"
  /\ IF ~cuda
       THEN UNCHANGED <<scaleExp, growth_tracker, found_inf>>
       ELSE /\ found_inf' = FALSE
            /\ IF found_inf
                 THEN /\ scaleExp' = scaleExp - 1
                      /\ growth_tracker' = 0
                 ELSE IF growth_tracker + 1 = GROWTH_INTERVAL
                        THEN /\ scaleExp' = scaleExp + 1
                             /\ growth_tracker' = 0
                        ELSE /\ scaleExp' = scaleExp
                             /\ growth_tracker' = growth_tracker + 1
  /\ trace' = Append(trace, "scaler_update")
  /\ pc' = PcAfter(pc)
  /\ UNCHANGED <<seed, seedB, manualSeed, data_train, data_test, i,
                 instances_seen, ema_losses, total_loss, losses, loss,
                 backprop, gradsInf, params, last_epoch, seedfr, seedfrB,
                 overflowed, iterParams, iterScale, evalLog, compLog>>
  /\ UNCHANGED <<goArgs, rngVars, batchVars, seqVars>>

\* sch.step(): OneCycleLR raises once it is stepped past total_steps.
GoSchStep ==
  /\ pc = "sch_step"
  /\ last_epoch' = last_epoch + 1
  /\ trace' = Append(trace, "schedule_step")
  /\ pc' = IF last_epoch + 1 > num_batches THEN "error" ELSE PcAfter(pc)
  /\ UNCHANGED <<seed, seedB, manualSeed, data_train, data_test, i,
                 instances_seen, ema_losses, total_loss, losses, loss,
                 backprop, gradsInf, found_inf, params, scaleExp,
                 growth_tracker, seedfr, seedfrB, overflowed, iterParams,
                 iterScale, evalLog, compLog>>
  /\ UNCHANGED <<goArgs, rngVars, batchVars, seqVars>>

\* if i != 0 and (i % test_every == 0 or i == num_batches - 1)
GoEvalCheck ==
  /\ pc = "eval_check"
  /\ pc' = IF EvalDue(i, num_batches, test_every) THEN "eval_seed" ELSE "loop"
  /\ UNCHANGED <<seed, seedB, manualSeed, data_train, data_test, i,
                 instances_seen, ema_losses, total_loss, losses, loss,
                 backprop, gradsInf, found_inf, params, scaleExp,
                 growth_tracker, last_epoch, seedfr, seedfrB, trace,
                 overflowed, iterParams, iterScale, evalLog, compLog>>
  /\ UNCHANGED <<goArgs, rngVars, batchVars, seqVars>>

\* seedfr = random.randint(0, data_test.size(0) - context)
GoEvalSeed ==
  /\ pc = "eval_seed"
  /\ Len(data_test) - context >= 0
  /\ seedfr' = PyRandint(pySeed, pyCnt, 0, Len(data_test) - context)
  /\ seedfrB' = PyRandint(pySeedB, pyCnt, 0, Len(data_test) - context)
  /\ pyCnt' = pyCnt + 1
  /\ UNCHANGED <<torchSeed, torchCnt, torchSeedB, pySeed, pySeedB>>
  /\ trace' = Append(trace, "evaluation")
  /\ pc' = PcAfter(pc)
  /\ UNCHANGED <<seed, seedB, manualSeed, data_train, data_test, i,
                 instances_seen, ema_losses, total_loss, losses, loss,
                 backprop, gradsInf, found_inf, params, scaleExp,
                 growth_tracker, last_epoch, overflowed, iterParams,
                 iterScale, evalLog, compLog>>
  /\ UNCHANGED <<goArgs, batchVars, seqVars>>

\* random.randint raises on an empty range: the held-out split is shorter
\* than context.
GoEvalSeedRaise ==
  /\ pc = "eval_seed"
  /\ Len(data_test) - context < 0
  /\ trace' = Append(trace, "evaluation")
  /\ pc' = "error"
  /\ UNCHANGED <<seed, seedB, manualSeed, data_train, data_test, i,
                 instances_seen, ema_losses, total_loss, losses, loss,
                 backprop, gradsInf, found_inf, params, scaleExp,
                 growth_tracker, last_epoch, seedfr, seedfrB, overflowed,
                 iterParams, iterScale, evalLog, compLog>>
  /\ UNCHANGED <<goArgs, rngVars, batchVars, seqVars>>

\* seed = data_test[seedfr : seedfr + context].to(torch.long);
\* sample_sequence(model, seed=seed, max_context=context, verbose=True,
\* length=sample_length) is called with its default temperature 0.5.
\* (The window is bound to the name seed in go; here it is held in seq_seed,
\* the argument of the call, and seed keeps the seed of the run.)
GoCallSampleSequence ==
  /\ pc = "eval_sample"
  /\ spc' = "call"
  /\ seq_seed' = ToLong(PySlice(data_test, seedfr, seedfr + context))
  /\ seed0' = ToLong(PySlice(data_test, seedfr, seedfr + context))
  /\ max_context' = context
  /\ length' = sample_length
  /\ temperature' = 5
  /\ UNCHANGED <<sequence, steps, modelCalls, lnprobs, c, cB, prevLn, prevC, ret>>
  /\ evalLog' = Append(evalLog, i)
  /\ pc' = PcAfter(pc)
  /\ UNCHANGED <<seed, seedB, manualSeed, data_train, data_test, i,
                 instances_seen, ema_losses, total_loss, losses, loss,
                 backprop, gradsInf, found_inf, params, scaleExp,
                 growth_tracker, last_epoch, seedfr, seedfrB, trace,
                 overflowed, iterParams, iterScale, compLog>>
  /\ UNCHANGED <<goArgs, rngVars, batchVars>>

\* sample_sequence returned (its result is dropped);
\* util.compute_compression(model, data_sub, ...) and the logging of its result.
GoCompression ==
  /\ pc = "in_sample_sequence"
  /\ spc = "returned"
  /\ spc' = "idle"
  /\ seq_seed' = NoValue
  /\ seed0' = NoValue
  /\ max_context' = 0
  /\ length' = 0
  /\ temperature' = 0
  /\ sequence' = NoValue
  /\ steps' = 0
  /\ modelCalls' = 0
  /\ lnprobs' = NoValue
  /\ c' = -1
  /\ cB' = -1
  /\ prevLn' = NoValue
  /\ prevC' = -1
  /\ ret' = NoValue
  /\ compLog' = Append(compLog, i)
  /\ pc' = PcAfter(pc)
  /\ UNCHANGED <<seed, seedB, manualSeed, data_train, data_test, i,
                 instances_seen, ema_losses, total_loss, losses, loss,
                 backprop, gradsInf, found_inf, params, scaleExp,
                 growth_tracker, last_epoch, seedfr, seedfrB, trace,
                 overflowed, iterParams, iterScale, evalLog>>
  /\ UNCHANGED <<goArgs, rngVars, batchVars>>

Next ==
  \/ GoSeed
  \/ GoLoadData
  \/ GoSetup
  \/ GoLoopNext
  \/ GoLoopDone
  \/ GoCallSampleBatch
  \/ SampleBatch
  \/ SampleBatchRaise
  \/ GoBatchReturned
  \/ GoBatchRaised
  \/ GoForward
  \/ GoLogLosses
  \/ GoBackward
  \/ GoUnscale
  \/ GoClip
  \/ GoScalerStep
  \/ GoScalerUpdate
  \/ GoSchStep
  \/ GoEvalCheck
  \/ GoEvalSeed
  \/ GoEvalSeedRaise
  \/ GoCallSampleSequence
  \/ SeqStart
  \/ SeqStep
  \/ SeqReturn
  \/ GoCompression

Spec == Init /\ [][Next]_vars

\* ------------------------------------------------------------------ claims

Count(s, x) == Cardinality({k \in 1 .. Len(s) : s[k] = x})

InTrace(e) == \E k \in 1 .. Len(trace) : trace[k] = e

IsPrefix(s, t) == Len(s) <= Len(t) /\ s = SubSeq(t, 1, Len(s))

\* C1: in every iteration the loss handed to scaler.scale(loss).backward() is
\* the total_loss the distillation combiner returned for this batch, never a
\* per-layer monitoring loss of the EMA tracker.
C1_BackpropIsTotalLoss ==
  pc = "unscale" => (backprop = total_loss /\ backprop.src = "distill_loss")

\* C2: sample_sequence returns the seed followed by the length tokens it
\* sampled, in order.
C2_ReturnsSeedPlusSampled ==
  spc = "returned" =>
    /\ Len(ret) = Len(seed0) + length
    /\ SubSeq(ret, 1, Len(seed0)) = seed0
    /\ ret = sequence

\* C3: for length + 1 < len(source) and batch_size >= 1, sample_batch returns
\* batch_size rows of length tokens each, and every row r has a start s with
\* 0 <= s, s + length < len(source), input[r][c] = source[s + c] and
\* target[r][c] = source[s + c + 1]; with 1000 tokens and length 10 the
\* largest start is 988.
C3_BatchShiftInvariant ==
  /\ (bpc \in {"returned", "raised"} /\ b_length + 1 < Len(data) /\ b_batch_size >= 1) =>
       /\ bpc = "returned"
       /\ Len(inputs) = b_batch_size
       /\ Len(target) = b_batch_size
       /\ \A r \in 1 .. b_batch_size :
            /\ Len(inputs[r]) = b_length
            /\ Len(target[r]) = b_length
            /\ \E s \in 0 .. Len(data) :
                 /\ s = starts[r]
                 /\ s + b_length < Len(data)
                 /\ \A k \in 0 .. (b_length - 1) :
                      /\ inputs[r][k + 1] = data[s + k + 1]
                      /\ target[r][k + 1] = data[s + k + 2]

\* C3 witness: a returned batch of two rows with different starts, one of
\* them the largest start there is.
C3_Witness ==
  /\ bpc = "returned"
  /\ pc = "idle"
  /\ b_batch_size >= 2
  /\ b_length >= 1
  /\ starts[1] # starts[2]
  /\ \E r \in 1 .. b_batch_size : starts[r] = Len(data) - b_length - 2

\* C4 as claimed: the evaluation (one sample_sequence call, one
\* compute_compression call) runs exactly once in every iteration whose index
\* is a multiple of test_every and in the final one, and in no other.
C4_EvalAtMultiplesAndFinal ==
  pc = "done" =>
    \A k \in 0 .. (num_batches - 1) :
      LET n == IF k % test_every = 0 \/ k = num_batches - 1 THEN 1 ELSE 0
      IN Count(evalLog, k) = n /\ Count(compLog, k) = n

\* C4 as amended: the evaluation runs exactly once in every iteration i > 0
\* whose index is a multiple of test_every or is num_batches - 1, and in no
\* other iteration; iteration 0 is never evaluated.
C4_EvalWhenDue ==
  /\ \A k \in 0 .. (num_batches - 1) :
       LET due == k # 0 /\ (k % test_every = 0 \/ k = num_batches - 1)
       IN /\ Count(evalLog, k) <= (IF due THEN 1 ELSE 0)
          /\ Count(compLog, k) <= Count(evalLog, k)
          /\ (k < i \/ (k = i /\ pc \in {"loop", "done"})) =>
               /\ Count(evalLog, k) = (IF due THEN 1 ELSE 0)
               /\ Count(compLog, k) = (IF due THEN 1 ELSE 0)
  /\ \A k \in 1 .. Len(evalLog) : evalLog[k] \in 0 .. i

\* C4 witness: a finished run whose final iteration was evaluated although
\* its index is no multiple of test_every.
C4_Witness ==
  /\ pc = "done"
  /\ (num_batches - 1) % test_every # 0
  /\ Count(evalLog, num_batches - 1) = 1
  /\ Count(compLog, num_batches - 1) = 1

\* C5: every random draw of a run comes from one source seeded once: two runs
\* with the same explicit seed draw the same batch starts, the same tokens
\* and the same seedfr, and the seed reported for the run is the seed that
\* source was seeded with.
C5_OneSeededSource ==
  /\ manualSeed >= 0 => (starts = startsB /\ c = cB /\ seedfr = seedfrB)
  /\ pc # "seed" => manualSeed = seed

\* C6: with a training split of at most context + 1 tokens or a held-out
\* split of fewer than context tokens, go fails before iteration 0 begins:
\* no batch is sampled, no optimizer step taken, no evaluation attempted.
C6_FailsBeforeIterationZero ==
  (pc \notin {"seed", "load"}
     /\ (Len(data_train) <= context + 1 \/ Len(data_test) < context)) =>
    /\ i = -1
    /\ trace = <<>>
    /\ params = 0
    /\ evalLog = <<>>

\* C7: in an iteration where the scaler finds inf/NaN gradients the
\* parameters stay as they were, the scale shrinks and the overflow raises
\* no error, while the iteration index, instances_seen and the schedule
\* advance as always: after k iterations the schedule was stepped k times,
\* never more than num_batches.
C7_OverflowSkipsUpdate ==
  /\ overflowed =>
       /\ params = iterParams
       /\ InTrace("scaler_update") => scaleExp < iterScale
       /\ pc = "error" => trace[Len(trace)] = "evaluation"
  /\ pc = "loop" =>
       /\ last_epoch = i + 1
       /\ instances_seen = (i + 1) * batch_size
  /\ last_epoch <= num_batches

\* C7 witness: the end of a second or later iteration that overflowed, after
\* an earlier one that did not.
C7_Witness ==
  /\ pc = "loop"
  /\ overflowed
  /\ i >= 1
  /\ params >= 1
  /\ scaleExp < INIT_SCALE_EXP

\* C8: sample(lnprobs, temperature=0.0) returns an index of a maximal entry,
\* takes no draw from the random source, and returns the same index when it
\* is called again on the same vector.
C8_GreedyIsArgmax ==
  (spc \in {"loop", "returned"} /\ temperature = 0 /\ steps >= 1) =>
    /\ c \in 0 .. (Len(lnprobs) - 1)
    /\ \A j \in 1 .. Len(lnprobs) : lnprobs[j] <= lnprobs[c + 1]
    /\ torchCnt = 0
    /\ (steps >= 2 /\ prevLn = lnprobs) => prevC = c

\* C8 witness: two greedy calls in a row on one vector whose maximum is not
\* its first entry.
C8_Witness ==
  /\ spc = "returned"
  /\ pc = "idle"
  /\ temperature = 0
  /\ steps >= 2
  /\ prevLn = lnprobs
  /\ c > 0

\* C9: sample_sequence leaves the seed as it was, for every length and
\* max_context; with length = 0 the model is never run and the returned
\* sequence equals the seed.
C9_SeedNotMutated ==
  spc \in {"call", "loop", "returned"} =>
    /\ seq_seed = seed0
    /\ (spc = "returned" /\ length = 0) =>
         /\ modelCalls = 0
         /\ ret = seed0
         /\ sequence = seed0

\* C9 witness: a call with length = 0 has returned.
C9_Witness ==
  /\ spc = "returned"
  /\ pc = "idle"
  /\ length = 0
  /\ ret = seed0
  /\ Len(seed0) > max_context

\* The events of iteration idx in the order of the claim, with or without
\* the clipping.
EventOrder(idx, withClip) ==
  <<"sample_batch", "forward", "backward", "unscale">>
    \o (IF withClip THEN <<"clip">> ELSE <<>>)
    \o <<"optimizer_step", "scaler_update", "schedule_step">>
    \o (IF idx # 0 /\ (idx % test_every = 0 \/ idx = num_batches - 1)
          THEN <<"evaluation">> ELSE <<>>)

\* The events of the current iteration follow the given order, and the next
\* iteration begins only when all of them, the evaluation included, are over.
OrderKept(order) ==
  /\ IsPrefix(trace, order)
  /\ (pc \in {"loop", "done"} /\ i >= 0) =>
       /\ trace = order
       /\ Count(compLog, i) = Count(evalLog, i)
       /\ Count(evalLog, i) = (IF InTrace("evaluation") THEN 1 ELSE 0)

\* C10 as claimed: every iteration runs batch sampling, forward, backward,
\* unscale, clipping, optimizer step, scaler update, schedule step and then
\* the evaluation if it is scheduled, in this order, and the next iteration
\* begins only after all of them.
C10_FixedOrderWithClipping == OrderKept(EventOrder(i, TRUE))

\* C10 as amended: the same order, in which the clipping takes place only
\* when gradient_clipping > 0.
C10_FixedOrder == OrderKept(EventOrder(i, gradient_clipping > 0))

\* C10 witness: an iteration with an evaluation and without clipping is over.
C10_Witness ==
  /\ pc = "loop"
  /\ i >= 1
  /\ gradient_clipping = 0
  /\ Len(trace) = 8
  /\ trace[8] = "evaluation"

====
